---- MODULE Spec2Model ----
(***************************************************************************)
(* next-request-ip: getClientIp(headers) resolves the client IP address    *)
(* from the headers of a request.  JavaScript strings are modelled as      *)
(* sequences of one-character strings, JavaScript values as records        *)
(* tagged with their type, and the regular expressions of src/index.ts by  *)
(* the set of positions each of their parts can end at.                    *)
(***************************************************************************)
EXTENDS Integers, Sequences, FiniteSets, TLC

VARIABLES headers, pc, result, lastIndex, calls

vars == <<headers, pc, result, lastIndex, calls>>

-----------------------------------------------------------------------------
(* Strings and characters                                                  *)

\* The characters of a string literal, one per element.
Str(s) == [i \in 1..Len(s) |-> SubSeq(s, i, i)]

Digits == {"0", "1", "2", "3", "4", "5", "6", "7", "8", "9"}

UpperLetters == Str("ABCDEFGHIJKLMNOPQRSTUVWXYZ")

LowerLetters == Str("abcdefghijklmnopqrstuvwxyz")

Letters == {UpperLetters[i] : i \in 1..Len(UpperLetters)} \cup {LowerLetters[i] : i \in 1..Len(LowerLetters)}

\* \w of a regular expression: the characters \b tells apart from the rest.
WordChars == Digits \cup Letters \cup {"_"}

\* [0-9a-fA-F], and [\dA-F] under the i flag.
HexChars == Digits \cup {"a", "b", "c", "d", "e", "f", "A", "B", "C", "D", "E", "F"}

\* The white space String.prototype.trim and \s remove.
WhiteSpace == {" ", "\t", "\n", "\r"}

\* The line terminators the regular expression . does not match.
LineTerminators == {"\n", "\r"}

\* The lower-case letter of each upper-case letter.
LowerMap == [c \in {UpperLetters[i] : i \in 1..Len(UpperLetters)} |-> LowerLetters[CHOOSE i \in 1..Len(UpperLetters) : UpperLetters[i] = c]]

\* String.prototype.toLowerCase, one character.
LowerChar(c) == IF c \in DOMAIN LowerMap THEN LowerMap[c] ELSE c

\* String.prototype.toLowerCase.
toLowerCase(s) == [i \in 1..Len(s) |-> LowerChar(s[i])]

\* s.slice(i - 1): the characters of s from position i (1-based) on.
From(s, i) == SubSeq(s, i, Len(s))

\* The character of s at position i, "" outside s.
At(s, i) == IF i >= 1 /\ i <= Len(s) THEN s[i] ELSE ""

\* s.startsWith(t, i - 1).
StartsWithAt(s, i, t) == i + Len(t) - 1 <= Len(s) /\ SubSeq(s, i, i + Len(t) - 1) = t

\* A backreference under the i flag: t, read at position i of s, letter case ignored.
\* A group that has not captured is the empty sequence, which matches anywhere.
BackRefAt(s, i, t) == StartsWithAt(toLowerCase(s), i, toLowerCase(t))

\* \b at position i: exactly one of the characters before and at i is a word character.
WordBoundary(s, i) == (At(s, i - 1) \in WordChars) # (At(s, i) \in WordChars)

\* String.prototype.trim.
RECURSIVE TrimStart(_)
TrimStart(s) == IF s # <<>> /\ Head(s) \in WhiteSpace THEN TrimStart(Tail(s)) ELSE s

RECURSIVE TrimEnd(_)
TrimEnd(s) == IF s # <<>> /\ s[Len(s)] \in WhiteSpace THEN TrimEnd(SubSeq(s, 1, Len(s) - 1)) ELSE s

trim(s) == TrimEnd(TrimStart(s))

\* String.prototype.split(sep) for a one-character separator: the pieces, in order.
RECURSIVE SplitFrom(_, _, _, _)
SplitFrom(s, sep, i, piece) == IF i > Len(s) THEN <<piece>> ELSE IF s[i] = sep THEN <<piece>> \o SplitFrom(s, sep, i + 1, <<>>) ELSE SplitFrom(s, sep, i + 1, Append(piece, s[i]))

split(s, sep) == SplitFrom(s, sep, 1, <<>>)

\* String.prototype.includes for a one-character needle.
includes(s, c) == \E i \in 1..Len(s) : s[i] = c

-----------------------------------------------------------------------------
(* regexes.ipv4                                                            *)

\* \d|[1-9]\d|1\d{2}|2[0-4]\d|25[0-5]
IsOctet(t) == \/ Len(t) = 1 /\ t[1] \in Digits
              \/ Len(t) = 2 /\ t[1] \in Digits \ {"0"} /\ t[2] \in Digits
              \/ Len(t) = 3 /\ t[1] = "1" /\ t[2] \in Digits /\ t[3] \in Digits
              \/ Len(t) = 3 /\ t[1] = "2" /\ t[2] \in {"0", "1", "2", "3", "4"} /\ t[3] \in Digits
              \/ Len(t) = 3 /\ t[1] = "2" /\ t[2] = "5" /\ t[3] \in {"0", "1", "2", "3", "4", "5"}

\* The positions an octet that starts at i can end before.
OctetEnds(s, i) == {j \in (i + 1)..(i + 3) : j <= Len(s) + 1 /\ IsOctet(SubSeq(s, i, j - 1))}

\* (?:octet\.){n} from the positions in from: the positions it can end before.
RECURSIVE OctetDotRepeat(_, _, _)
OctetDotRepeat(s, from, n) == IF n = 0 THEN from ELSE OctetDotRepeat(s, UNION {{j + 1 : j \in {k \in OctetEnds(s, i) : At(s, k) = "."}} : i \in from}, n - 1)

\* regexes.ipv4.test(s)
TestIpv4(s) == \E i \in OctetDotRepeat(s, {1}, 3) : (Len(s) + 1) \in OctetEnds(s, i)

-----------------------------------------------------------------------------
(* regexes.ipv6                                                            *)
(*                                                                         *)
(* ^( (?=.*::)(?!.*::.+::)(::)?([\dA-F]{1,4}:(:|\b)|){5}                   *)
(*  | ([\dA-F]{1,4}:){6} )                                                 *)
(*  ( (([\dA-F]{1,4}((?!\3)::|:\b|$))|(?!\2\3)){2}                         *)
(*  | (((2[0-4]|1\d|[1-9])?\d|25[0-5])\.?\b){4} )$          with flag i    *)
(*                                                                         *)
(* test() asks whether some way of matching exists, so each part is the    *)
(* set of ways it can match: the position it ends before and, where a      *)
(* later backreference reads them, the text groups 2 and 3 captured.       *)

\* [\dA-F]{1,4} from position i: the positions it can end before.
HexRunEnds(s, i) == {j \in (i + 1)..(i + 4) : j <= Len(s) + 1 /\ \A k \in i..(j - 1) : s[k] \in HexChars}

\* Some "::" starts at position p of s.
DoubleColonAt(s, p) == At(s, p) = ":" /\ At(s, p + 1) = ":"

\* (?=.*::) at position i.
HasDoubleColon(s, i) == \E p \in i..Len(s) : DoubleColonAt(s, p) /\ \A k \in i..(p - 1) : s[k] \notin LineTerminators

\* .*::.+:: matches at position i.
HasTwoDoubleColons(s, i) == \E p \in i..Len(s) : \E q \in (p + 3)..Len(s) : DoubleColonAt(s, p) /\ DoubleColonAt(s, q) /\ \A k \in (i..(p - 1)) \cup ((p + 2)..(q - 1)) : s[k] \notin LineTerminators

\* (::)? at position i: <<position after, text of group 2>>.
Group2Ways(s, i) == {<<i, <<>>>>} \cup (IF DoubleColonAt(s, i) THEN {<<i + 2, <<":", ":">>>>} ELSE {})

\* One round of group 3, ([\dA-F]{1,4}:(:|\b)|), at position i:
\* <<position after, text of group 3>>.
Group3Ways(s, i) == {<<i, <<>>>>} \cup UNION {(IF At(s, j) = ":" /\ At(s, j + 1) = ":" THEN {<<j + 2, SubSeq(s, i, j + 1)>>} ELSE {}) \cup (IF At(s, j) = ":" /\ WordBoundary(s, j + 1) THEN {<<j + 1, SubSeq(s, i, j)>>} ELSE {}) : j \in HexRunEnds(s, i)}

\* (group 3){n} from the ways in from; group 3 keeps what its last round captured.
RECURSIVE Group3Repeat(_, _, _)
Group3Repeat(s, from, n) == IF n = 0 THEN from ELSE Group3Repeat(s, UNION {Group3Ways(s, w[1]) : w \in from}, n - 1)

\* ([\dA-F]{1,4}:){n} from the positions in from.
RECURSIVE Group5Repeat(_, _, _)
Group5Repeat(s, from, n) == IF n = 0 THEN from ELSE Group5Repeat(s, UNION {{j + 1 : j \in {k \in HexRunEnds(s, i) : At(s, k) = ":"}} : i \in from}, n - 1)

\* Group 1 at the start of s: <<position after, text of group 2, text of group 3>>.
\* In its second alternative groups 2 and 3 capture nothing.
Group1Ways(s) == (IF HasDoubleColon(s, 1) /\ ~HasTwoDoubleColons(s, 1) THEN UNION {{<<w3[1], w2[2], w3[2]>> : w3 \in Group3Repeat(s, {<<w2[1], <<>>>>}, 5)} : w2 \in Group2Ways(s, 1)} ELSE {}) \cup {<<i, <<>>, <<>>>> : i \in Group5Repeat(s, {1}, 6)}

\* One round of group 7, (([\dA-F]{1,4}((?!\3)::|:\b|$))|(?!\2\3)), at position i:
\* the positions it can end before.
Group7Ends(s, i, g2, g3) == UNION {(IF ~BackRefAt(s, j, g3) /\ DoubleColonAt(s, j) THEN {j + 2} ELSE {}) \cup (IF At(s, j) = ":" /\ WordBoundary(s, j + 1) THEN {j + 1} ELSE {}) \cup (IF j = Len(s) + 1 THEN {j} ELSE {}) : j \in HexRunEnds(s, i)} \cup (IF ~BackRefAt(s, i, g2 \o g3) THEN {i} ELSE {})

\* (group 7){n} from the positions in from.
RECURSIVE Group7Repeat(_, _, _, _, _)
Group7Repeat(s, from, g2, g3, n) == IF n = 0 THEN from ELSE Group7Repeat(s, UNION {Group7Ends(s, i, g2, g3) : i \in from}, g2, g3, n - 1)

\* ((2[0-4]|1\d|[1-9])?\d|25[0-5])
IsDottedPart(t) == \/ Len(t) = 1 /\ t[1] \in Digits
                   \/ Len(t) = 3 /\ t[1] = "2" /\ t[2] \in {"0", "1", "2", "3", "4"} /\ t[3] \in Digits
                   \/ Len(t) = 3 /\ t[1] = "1" /\ t[2] \in Digits /\ t[3] \in Digits
                   \/ Len(t) = 2 /\ t[1] \in Digits \ {"0"} /\ t[2] \in Digits
                   \/ Len(t) = 3 /\ t[1] = "2" /\ t[2] = "5" /\ t[3] \in {"0", "1", "2", "3", "4", "5"}

\* One round of group 10, (dotted part \.?\b), at position i.
Group10Ends(s, i) == UNION {(IF WordBoundary(s, j) THEN {j} ELSE {}) \cup (IF At(s, j) = "." /\ WordBoundary(s, j + 1) THEN {j + 1} ELSE {}) : j \in {k \in (i + 1)..(i + 3) : k <= Len(s) + 1 /\ IsDottedPart(SubSeq(s, i, k - 1))}}

\* (group 10){n} from the positions in from.
RECURSIVE Group10Repeat(_, _, _)
Group10Repeat(s, from, n) == IF n = 0 THEN from ELSE Group10Repeat(s, UNION {Group10Ends(s, i) : i \in from}, n - 1)

\* Group 6 after one way w of group 1: the positions it can end before.
Group6Ends(s, w) == Group7Repeat(s, {w[1]}, w[2], w[3], 2) \cup Group10Repeat(s, {w[1]}, 4)

\* regexes.ipv6.test(s)
TestIpv6(s) == \E w \in Group1Ways(s) : (Len(s) + 1) \in Group6Ends(s, w)

-----------------------------------------------------------------------------
(* JavaScript values, and the is helpers                                   *)

\* null, which Headers.get returns for a header that is not set.
Null == [t |-> "null"]

\* A string value with the characters s.
StrVal(s) == [t |-> "string", s |-> s]

\* A number value.
NumVal(n) == [t |-> "number", n |-> n]

\* ToBoolean, as && and if apply it.
Truthy(v) == \/ v.t = "string" /\ v.s # <<>>
             \/ v.t = "number" /\ v.n # 0

\* A function's normal completion with value v.
Return(v) == [kind |-> "return", value |-> v]

\* A function's abrupt completion: throw new TypeError(...).
Throw(e) == [kind |-> "throw", error |-> e]

\* existy(value): value != null
existy(value) == value.t # "null"

\* string(value): Object.prototype.toString.call(value) === "[object String]"
string(value) == value.t = "string"

\* is.not.string
notString(value) == ~string(value)

\* A variant with the g flag on both patterns.
regexesGlobal == [ipv4 |-> [global |-> TRUE, sticky |-> FALSE, ignoreCase |-> FALSE], ipv6 |-> [global |-> TRUE, sticky |-> FALSE, ignoreCase |-> TRUE]]

\* The flags of the two patterns of regexes: none, and i.
regexes == [ipv4 |-> [global |-> FALSE, sticky |-> FALSE, ignoreCase |-> FALSE], ipv6 |-> [global |-> FALSE, sticky |-> FALSE, ignoreCase |-> TRUE]]

\* A regex whose test reads and writes its lastIndex: a global or sticky one.
Stateful(re) == regexes[re].global \/ regexes[re].sticky

\* s as a whole matches the pattern of regex re.
Matches(re, s) == IF re = "ipv4" THEN TestIpv4(s) ELSE TestIpv6(s)

\* regexes[re].test(s): the match is tried from lastIndex on for a global or
\* sticky regex and from 0 on otherwise; both patterns begin with ^, so they
\* match from 0 only.
test(re, s) == (IF Stateful(re) THEN lastIndex[re] ELSE 0) = 0 /\ Matches(re, s)

\* ip(value)
ip(value) == existy(value) /\ value.t = "string" /\ (test("ipv4", value.s) \/ test("ipv6", value.s))

-----------------------------------------------------------------------------
(* normalizeIpCandidate                                                    *)

\* Every character of t is a decimal digit (\d* as a whole).
AllDigits(t) == \A i \in 1..Len(t) : t[i] \in Digits

\* v.startsWith(q) && v.endsWith(q) for a one-character q.
Wrapped(v, q) == v # <<>> /\ v[1] = q /\ v[Len(v)] = q

\* /^\[([^\]]+)\](?::(\d+))?$/ : the positions of the closing bracket in a match.
BracketClose(v) == {k \in 3..Len(v) : /\ v[1] = "["
                                      /\ v[k] = "]"
                                      /\ \A i \in 2..(k - 1) : v[i] # "]"
                                      /\ \/ k = Len(v)
                                         \/ At(v, k + 1) = ":" /\ k + 2 <= Len(v) /\ AllDigits(From(v, k + 2))}

\* \d{1,3}(?:\.\d{1,3}){3} as a whole.
IsDottedQuad(t) == LET parts == split(t, ".") IN Len(parts) = 4 /\ \A i \in 1..4 : Len(parts[i]) \in 1..3 /\ AllDigits(parts[i])

\* /^(\d{1,3}(?:\.\d{1,3}){3}):\d+$/ : the positions of the colon in a match.
Ipv4PortColon(v) == {c \in 1..Len(v) : v[c] = ":" /\ IsDottedQuad(SubSeq(v, 1, c - 1)) /\ c < Len(v) /\ AllDigits(From(v, c + 1))}

\* A variant that takes a single digit for a port too: \d{1,5}.
Ipv6PortColonOneDigit(v) == {c \in 2..Len(v) : /\ v[c] = ":"
                                               /\ \A i \in 1..(c - 1) : v[i] \in HexChars \cup {":"}
                                               /\ (Len(v) - c) \in 1..5
                                               /\ AllDigits(From(v, c + 1))}

\* /^([0-9a-fA-F:]+):(\d{2,5})$/ : the positions of the colon before the digits in a match.
Ipv6PortColon(v) == {c \in 2..Len(v) : /\ v[c] = ":"
                                       /\ \A i \in 1..(c - 1) : v[i] \in HexChars \cup {":"}
                                       /\ (Len(v) - c) \in 2..5
                                       /\ AllDigits(From(v, c + 1))}

\* A variant that knows double quotes only.
UnquoteDoubleOnly(v) == IF Wrapped(v, "\"") THEN trim(SubSeq(v, 2, Len(v) - 1)) ELSE v

\* The candidate once its surrounding quotes are gone.
Unquote(v) == IF Wrapped(v, "\"") \/ Wrapped(v, "'") THEN trim(SubSeq(v, 2, Len(v) - 1)) ELSE v

\* The candidate without brackets and port.
StripBracketsAndPort(v) == IF BracketClose(v) # {} THEN SubSeq(v, 2, (CHOOSE k \in BracketClose(v) : TRUE) - 1)
                           ELSE IF Ipv4PortColon(v) # {} THEN SubSeq(v, 1, (CHOOSE c \in Ipv4PortColon(v) : TRUE) - 1)
                           ELSE IF Ipv6PortColon(v) # {} /\ includes(SubSeq(v, 1, (CHOOSE c \in Ipv6PortColon(v) : TRUE) - 1), ":") THEN SubSeq(v, 1, (CHOOSE c \in Ipv6PortColon(v) : TRUE) - 1)
                           ELSE v

normalizeIpCandidate(input) == StripBracketsAndPort(Unquote(trim(input)))

-----------------------------------------------------------------------------
(* getClientIpFromXForwardedFor                                            *)

\* A variant that scans from the right: the last element that is an IP.
RECURSIVE LastIp(_, _)
LastIp(forwardedIps, i) == IF i > Len(forwardedIps) THEN Null ELSE IF LastIp(forwardedIps, i + 1) # Null THEN LastIp(forwardedIps, i + 1) ELSE IF ip(StrVal(forwardedIps[i])) THEN StrVal(forwardedIps[i]) ELSE Null

\* The first element of the candidates that is an IP, null when there is none.
RECURSIVE FirstIp(_, _)
FirstIp(forwardedIps, i) == IF i > Len(forwardedIps) THEN Null ELSE IF ip(StrVal(forwardedIps[i])) THEN StrVal(forwardedIps[i]) ELSE FirstIp(forwardedIps, i + 1)

\* value.split(",").map((e) => normalizeIpCandidate(e.trim()))
ForwardedIps(s) == LET parts == split(s, ",") IN [i \in 1..Len(parts) |-> normalizeIpCandidate(trim(parts[i]))]

\* A variant that takes a list without any address for an error.
getClientIpFromXForwardedForStrict(value) == IF value = Null THEN Return(Null)
                                             ELSE IF notString(value) \/ FirstIp(ForwardedIps(value.s), 1) = Null THEN Throw("TypeError")
                                             ELSE Return(FirstIp(ForwardedIps(value.s), 1))

getClientIpFromXForwardedFor(value) == IF value = Null THEN Return(Null)
                                       ELSE IF notString(value) THEN Throw("TypeError")
                                       ELSE Return(FirstIp(ForwardedIps(value.s), 1))

-----------------------------------------------------------------------------
(* getClientIpFromForwarded                                                *)

\* A variant without the trim of the two pieces.
KeyAndRawUntrimmed(p) == LET pieces == split(p, "=") IN [i \in 1..(IF Len(pieces) < 2 THEN Len(pieces) ELSE 2) |-> pieces[i]]

\* p.split("=", 2).map((s) => s && s.trim()): at most the first two pieces.
KeyAndRaw(p) == LET pieces == split(p, "=") IN [i \in 1..(IF Len(pieces) < 2 THEN Len(pieces) ELSE 2) |-> trim(pieces[i])]

\* raw.replace(/^\s*for=/i, "")
DropForPrefix(raw) == LET rest == TrimStart(raw) IN IF StartsWithAt(toLowerCase(rest), 1, Str("for=")) THEN From(rest, 5) ELSE raw

\* The IP of the first for= parameter among params[i..] that holds one, null when there is none.
RECURSIVE FirstForInParams(_, _)
FirstForInParams(params, i) == IF i > Len(params) THEN Null
                               ELSE LET kv == KeyAndRaw(trim(params[i]))
                                        candidate == normalizeIpCandidate(DropForPrefix(kv[2]))
                                    IN IF Len(kv) < 2 \/ kv[1] = <<>> \/ kv[2] = <<>> THEN FirstForInParams(params, i + 1)
                                       ELSE IF toLowerCase(kv[1]) = Str("for") /\ ip(StrVal(candidate)) THEN StrVal(candidate)
                                       ELSE FirstForInParams(params, i + 1)

\* The same over the entries[i..], each split on ";".
RECURSIVE FirstForInEntries(_, _)
FirstForInEntries(entries, i) == IF i > Len(entries) THEN Null
                                 ELSE LET found == FirstForInParams(split(trim(entries[i]), ";"), 1)
                                      IN IF found # Null THEN found ELSE FirstForInEntries(entries, i + 1)

\* A variant that takes a value that is not a string for an absent one.
getClientIpFromForwardedLenient(value) == IF value = Null \/ notString(value) THEN Return(Null)
                                          ELSE Return(FirstForInEntries(split(value.s, ","), 1))

getClientIpFromForwarded(value) == IF value = Null THEN Return(Null)
                                   ELSE IF notString(value) THEN Throw("TypeError")
                                   ELSE Return(FirstForInEntries(split(value.s, ","), 1))

-----------------------------------------------------------------------------
(* getClientIp                                                             *)

\* The headers getClientIp returns a value of, as the code spells them.
RecognizedHeaders == {"x-client-ip", "cf-connecting-ip", "do-connecting-ip", "fastly-client-ip", "true-client-ip", "x-real-ip", "x-cluster-client-ip", "x-envoy-external-address", "x-envoy-client-address", "x-forwarded-for", "x-original-forwarded-for", "x-forwarded", "forwarded-for", "forwarded", "x-appengine-user-ip", "Cf-Pseudo-IPv4"}

\* Headers getClientIp returns no value of: one it reads, one it never reads.
OtherHeaders == {"x-envoy-upstream-service-time", "user-agent"}

\* The names a Headers object holds its entries under: lower case.
HeaderKeys == {"x-client-ip", "cf-connecting-ip", "do-connecting-ip", "fastly-client-ip", "true-client-ip", "x-real-ip", "x-cluster-client-ip", "x-envoy-external-address", "x-envoy-client-address", "x-forwarded-for", "x-original-forwarded-for", "x-forwarded", "forwarded-for", "forwarded", "x-appengine-user-ip", "cf-pseudo-ipv4", "x-envoy-upstream-service-time", "user-agent"}

\* The key a header name is looked up under: the name in lower case.
HeaderKey == [name \in RecognizedHeaders \cup OtherHeaders |-> CHOOSE k \in HeaderKeys : Str(k) = toLowerCase(Str(name))]

\* Headers.get(name): header names are matched without regard to letter case,
\* and a header that is not set reads as null.
get(hdrs, name) == hdrs[HeaderKey[name]]

\* A variant that leaves the validation out: if (value) return value.
IsIpValueUnchecked(value) == Truthy(value)

\* if (value && is.ip(value)) return value; for a header read as it is.
IsIpValue(value) == Truthy(value) /\ ip(value)

\* The tail of getClientIp from "x-forwarded" on (x-forwarded, forwarded-for,
\* forwarded, x-appengine-user-ip, Cf-Pseudo-IPv4).
AfterUpstreamTime(hdrs) == LET xForwarded == get(hdrs, "x-forwarded")
                               forwardedFor == get(hdrs, "forwarded-for")
                               forwardedHeader == get(hdrs, "forwarded")
                               forwardedParsed == getClientIpFromForwarded(forwardedHeader)
                               xAppengineUserIp == get(hdrs, "x-appengine-user-ip")
                               cfPseudoIpv4 == get(hdrs, "Cf-Pseudo-IPv4")
                           IN IF IsIpValue(xForwarded) THEN Return(xForwarded)
                              ELSE IF IsIpValue(forwardedFor) THEN Return(forwardedFor)
                              ELSE IF IsIpValue(forwardedHeader) THEN Return(forwardedHeader)
                              ELSE IF forwardedParsed.kind = "throw" THEN forwardedParsed
                              ELSE IF IsIpValue(forwardedParsed.value) THEN forwardedParsed
                              ELSE IF IsIpValue(xAppengineUserIp) THEN Return(xAppengineUserIp)
                              ELSE IF IsIpValue(cfPseudoIpv4) THEN Return(cfPseudoIpv4)
                              ELSE Return(Null)

\* A variant that returns x-envoy-upstream-service-time when it holds an address.
AfterOriginalForwardedForReturning(hdrs) == LET xEnvoyUpstreamTime == get(hdrs, "x-envoy-upstream-service-time")
                                            IN IF IsIpValue(xEnvoyUpstreamTime) THEN Return(xEnvoyUpstreamTime) ELSE AfterUpstreamTime(hdrs)

\* The part of getClientIp from "x-envoy-upstream-service-time" on: the header is
\* read and, when truthy, trimmed (a method only strings have), never returned.
AfterOriginalForwardedFor(hdrs) == LET xEnvoyUpstreamTime == get(hdrs, "x-envoy-upstream-service-time")
                                   IN IF Truthy(xEnvoyUpstreamTime) /\ notString(xEnvoyUpstreamTime) THEN Throw("TypeError") ELSE AfterUpstreamTime(hdrs)

\* The part of getClientIp from "x-forwarded-for" on: the two list headers.
AfterEnvoy(hdrs) == LET xForwardedFor == getClientIpFromXForwardedFor(get(hdrs, "x-forwarded-for"))
                        xOriginalForwardedFor == get(hdrs, "x-original-forwarded-for")
                        originalIp == getClientIpFromXForwardedFor(xOriginalForwardedFor)
                    IN IF xForwardedFor.kind = "throw" THEN xForwardedFor
                       ELSE IF IsIpValue(xForwardedFor.value) THEN xForwardedFor
                       ELSE IF Truthy(xOriginalForwardedFor) /\ originalIp.kind = "throw" THEN originalIp
                       ELSE IF Truthy(xOriginalForwardedFor) /\ IsIpValue(originalIp.value) THEN originalIp
                       ELSE AfterOriginalForwardedFor(hdrs)

\* The part of getClientIp from "cf-connecting-ip" on: eight headers read as they are.
AfterXClientIp(hdrs) == LET cfConnectingIp == get(hdrs, "cf-connecting-ip")
                            doConnectingIp == get(hdrs, "do-connecting-ip")
                            fastlyClientIp == get(hdrs, "fastly-client-ip")
                            trueClientIp == get(hdrs, "true-client-ip")
                            xRealIp == get(hdrs, "x-real-ip")
                            xClusterClientIp == get(hdrs, "x-cluster-client-ip")
                            xEnvoyExternal == get(hdrs, "x-envoy-external-address")
                            xEnvoyClient == get(hdrs, "x-envoy-client-address")
                        IN IF IsIpValue(cfConnectingIp) THEN Return(cfConnectingIp)
                           ELSE IF IsIpValue(doConnectingIp) THEN Return(doConnectingIp)
                           ELSE IF IsIpValue(fastlyClientIp) THEN Return(fastlyClientIp)
                           ELSE IF IsIpValue(trueClientIp) THEN Return(trueClientIp)
                           ELSE IF IsIpValue(xRealIp) THEN Return(xRealIp)
                           ELSE IF IsIpValue(xClusterClientIp) THEN Return(xClusterClientIp)
                           ELSE IF IsIpValue(xEnvoyExternal) THEN Return(xEnvoyExternal)
                           ELSE IF IsIpValue(xEnvoyClient) THEN Return(xEnvoyClient)
                           ELSE AfterEnvoy(hdrs)

\* A variant that reads x-forwarded-for second, right after x-client-ip.
getClientIpForwardedForSecond(hdrs) == LET xClientIp == get(hdrs, "x-client-ip")
                                           xForwardedFor == getClientIpFromXForwardedFor(get(hdrs, "x-forwarded-for"))
                                       IN IF IsIpValue(xClientIp) THEN Return(xClientIp)
                                          ELSE IF xForwardedFor.kind = "throw" THEN xForwardedFor
                                          ELSE IF IsIpValue(xForwardedFor.value) THEN xForwardedFor
                                          ELSE AfterXClientIp(hdrs)

\* A variant that normalizes x-client-ip as a list token before validating it.
getClientIpNormalizingXClientIp(hdrs) == LET xClientIp == get(hdrs, "x-client-ip")
                                             candidate == IF string(xClientIp) THEN StrVal(normalizeIpCandidate(xClientIp.s)) ELSE xClientIp
                                         IN IF IsIpValue(candidate) THEN Return(candidate) ELSE AfterXClientIp(hdrs)

getClientIp(hdrs) == LET xClientIp == get(hdrs, "x-client-ip")
                     IN IF IsIpValue(xClientIp) THEN Return(xClientIp) ELSE AfterXClientIp(hdrs)

-----------------------------------------------------------------------------
(* The requests getClientIp is called on                                   *)

\* new Headers(): no header set.
EmptyHeaders == [k \in HeaderKeys |-> Null]

\* The number of headers set.
HeaderCount(hdrs) == Cardinality({k \in HeaderKeys : hdrs[k] # Null})

\* The most headers one request of Spec carries.
MaxHeaders == 2

\* Header values of Spec: an IPv4 and an IPv6 address, a list without any
\* address, and the empty string.
StringValues == {StrVal(Str(s)) : s \in {"1.1.1.1", "::2", "unknown, x", ""}}

\* What a header source that is not a Headers object can hand out in place of a string.
NonStringValues == {NumVal(0), NumVal(123)}

\* No call has completed yet.
NoResult == [kind |-> "none"]

\* The most calls of getClientIp in one process.
MaxCalls == 3

Init == headers = EmptyHeaders /\ pc = "build" /\ result = NoResult /\ lastIndex = [re \in DOMAIN regexes |-> 0] /\ calls = 0

\* The caller sets one more header, one of keys, to a string of pool, up to limit headers.
SetHeader(keys, pool, limit) == /\ pc = "build"
                                /\ HeaderCount(headers) < limit
                                /\ \E k \in keys, value \in pool : headers[k] = Null /\ headers' = [headers EXCEPT ![k] = value]
                                /\ UNCHANGED <<pc, result, lastIndex, calls>>

\* The caller's header source holds a value that is not a string under one more name.
SetNonString(keys) == /\ pc = "build"
                      /\ HeaderCount(headers) < MaxHeaders
                      /\ \E k \in keys, value \in NonStringValues : headers[k] = Null /\ headers' = [headers EXCEPT ![k] = value]
                      /\ UNCHANGED <<pc, result, lastIndex, calls>>

\* The lastIndex of the two patterns once a call has completed with res: test
\* writes it for a global or sticky regex only, the end of the match when it
\* has found one and 0 when it has not.
LastIndexAfterCall(res) == [re \in DOMAIN regexes |-> IF ~Stateful(re) THEN lastIndex[re]
                                                      ELSE IF res.kind = "return" /\ res.value # Null /\ Matches(re, res.value.s) THEN Len(res.value.s)
                                                      ELSE 0]

\* getClientIp(headers) runs to its return or throw: it reads the headers
\* with get and tests strings against the two patterns, nothing else.
Resolve == /\ calls < MaxCalls
           /\ result' = getClientIp(headers)
           /\ lastIndex' = LastIndexAfterCall(result')
           /\ calls' = calls + 1
           /\ UNCHANGED headers

\* The first call on a header source.
Call == /\ pc = "build"
        /\ Resolve
        /\ pc' = "done"

\* One more call on the same header source.
CallAgain == /\ pc = "done"
             /\ Resolve
             /\ UNCHANGED pc

\* The caller moves on to a new header source, in the same process.
NewRequest == /\ pc = "done"
              /\ headers' = EmptyHeaders
              /\ pc' = "build"
              /\ result' = NoResult
              /\ UNCHANGED <<lastIndex, calls>>

\* The headers getClientIp reads.
ReadKeys == HeaderKeys \ {"user-agent"}

Next == \/ SetHeader(ReadKeys, StringValues, MaxHeaders)
        \/ SetNonString(ReadKeys)
        \/ Call

\* Up to MaxHeaders of the headers getClientIp reads, set to strings or not, then the call.
Spec == Init /\ [][Next]_vars

NextRepeat == \/ SetHeader(ReadKeys, StringValues, MaxHeaders)
              \/ Call
              \/ CallAgain
              \/ NewRequest

\* Header sources one after the other in one process, each resolved once or
\* several times, up to MaxCalls calls in all.
SpecRepeat == Init /\ [][NextRepeat]_vars

-----------------------------------------------------------------------------
(* Requests with a single header, over a wide range of values              *)

\* The strings of length n over the characters of alphabet.
RECURSIVE StringsOfLen(_, _)
StringsOfLen(alphabet, n) == IF n = 0 THEN {<<>>} ELSE {Append(s, c) : s \in StringsOfLen(alphabet, n - 1), c \in alphabet}

\* The longest string of ShortStrings.
MaxLen == 5

\* Every string up to MaxLen of a digit, a letter digit and the colon: all
\* short IPv6 shapes, and what is almost one.
ShortStrings == UNION {StringsOfLen({"1", "a", ":"}, n) : n \in 0..MaxLen}

\* The most digits of a port.
MaxPortLen == 5

\* Decimal ports of 1 to MaxPortLen digits.
Ports == {[i \in 1..n |-> "8"] : n \in 1..MaxPortLen}

\* Addresses as the repository's tests and README write them, and more shapes
\* of the same grammar; two strings no validator accepts.
Ipv4Samples == {Str(s) : s \in {"192.168.1.1", "10.0.0.1", "255.255.255.255"}}

Ipv6Samples == {Str(s) : s \in {"2001:db8::1", "1:2:3:4:5:6:7:8", "::ffff:1.2.3.4", "2001:db8::1:8080", "FE80::A", "::1", "::"}}

NotAddresses == {Str(s) : s \in {"unknown", "300.1.1.1"}}

\* An address as proxies decorate it: with a port, in brackets, in quotes.
Decorated == {q \o body \o q : q \in {<<>>, <<"\"">>, <<"'">>}, body \in UNION {{b, <<"[">> \o b \o <<"]">>} \cup {b \o <<":">> \o p : p \in Ports} \cup {<<"[">> \o b \o <<"]", ":">> \o p : p \in Ports} : b \in Ipv4Samples \cup Ipv6Samples \cup NotAddresses}}

\* The pieces joined by the separator sep.
RECURSIVE Join(_, _)
Join(pieces, sep) == IF Len(pieces) = 0 THEN <<>> ELSE IF Len(pieces) = 1 THEN pieces[1] ELSE pieces[1] \o sep \o Join(Tail(pieces), sep)

\* The most tokens of a list value.
MaxTokens == 3

\* What the proxies of a chain put into x-forwarded-for.
ListTokens == {Str(s) : s \in {"unknown", "1.1.1.1", " 2.2.2.2:80 ", "\"[::3]:80\"", "", "4.4.4"}}

\* The list values of 1 to MaxTokens tokens.
Lists == UNION {{Join(l, <<",">>) : l \in [1..n -> ListTokens]} : n \in 1..MaxTokens}

\* The most parameters of a Forwarded value.
MaxParams == 2

\* Parameters of a Forwarded value, well formed and not.
ForwardedParams == {Str(s) : s \in {"for=1.1.1.1", "For=\"[::3]:80\"", " FOR = 2.2.2.2 ", "for=_hidden", "by=4.4.4.4", "for", "=5.5.5.5", "for=6.6.6.6=x"}}

\* The pieces joined by the separators seps[1], seps[2], ...
RECURSIVE JoinWith(_, _)
JoinWith(pieces, seps) == IF Len(pieces) = 1 THEN pieces[1] ELSE pieces[1] \o <<seps[1]>> \o JoinWith(Tail(pieces), Tail(seps))

\* The Forwarded values of 1 to MaxParams parameters, in one or several entries.
ForwardedValues == UNION {{JoinWith(ps, seps) : ps \in [1..n -> ForwardedParams], seps \in [1..(n - 1) -> {";", ","}]} : n \in 1..MaxParams}

\* Values of other kinds: text, a host name, an address between spaces.
OtherValues == {Str(s) : s \in {"invalid", "example.com", " 10.0.0.1 ", "123"}}

\* The header values of SpecValue.
ValuePool == {StrVal(s) : s \in ShortStrings \cup Decorated \cup Lists \cup ForwardedValues \cup OtherValues}

NextValue == \/ SetHeader(HeaderKeys, ValuePool, 1)
             \/ Call

\* One header, any of the names, set to any value of ValuePool, then the call.
SpecValue == Init /\ [][NextValue]_vars

-----------------------------------------------------------------------------
(* What the claims speak of                                                *)

\* The recognized headers in the priority order of the specification.
Priority == <<"x-client-ip", "cf-connecting-ip", "do-connecting-ip", "fastly-client-ip", "true-client-ip", "x-real-ip", "x-cluster-client-ip", "x-envoy-external-address", "x-envoy-client-address", "x-forwarded-for", "x-original-forwarded-for", "x-forwarded", "forwarded-for", "forwarded", "x-appengine-user-ip", "cf-pseudo-ipv4">>

RecognizedKeys == {Priority[i] : i \in 1..Len(Priority)}

\* The list headers, and the headers read as a single value.
ListKeys == {"x-forwarded-for", "x-original-forwarded-for"}

AtomicKeys == RecognizedKeys \ (ListKeys \cup {"forwarded"})

\* Every header that is set holds a string: a header source as Headers gives it.
AllStrings(hdrs) == \A k \in HeaderKeys : hdrs[k].t \in {"null", "string"}

\* The headers that are set.
SetKeys(hdrs) == {k \in HeaderKeys : hdrs[k] # Null}

\* What getClientIp makes of header k of the request when no other header is set.
Alone(k) == IF headers[k] = Null THEN Return(Null) ELSE getClientIp([EmptyHeaders EXCEPT ![k] = headers[k]])

\* Header k of the request yields a valid IP.
Yields(k) == Alone(k) \notin {Return(Null), Throw("TypeError")}

\* The request without header k.
Without(k) == [headers EXCEPT ![k] = Null]

\* The call has completed on a request whose only header is k.
DoneWithOnly(k) == pc = "done" /\ SetKeys(headers) = {k}

-----------------------------------------------------------------------------
(* C1: whatever the request, getClientIp returns null or a string the IP   *)
(* validator accepts: never the empty string, never one with a bracket, a  *)
(* quote, a space or a comma left in it, and an IPv4 result has no port.   *)
C1_ResultIsNullOrValidIp == pc = "done" /\ result.kind = "return" /\ result.value # Null => /\ result.value.t = "string"
                                                                                             /\ ip(result.value)
                                                                                             /\ result.value.s # <<>>
                                                                                             /\ \A i \in 1..Len(result.value.s) : result.value.s[i] \notin {"[", "]", "\"", "'", " ", ","}
                                                                                             /\ (includes(result.value.s, ".") /\ ~includes(result.value.s, ":")) => TestIpv4(result.value.s)

\* A list header whose token carried brackets and a port has yielded the bare address.
C1_Witness == /\ DoneWithOnly("x-forwarded-for")
              /\ result = Return(StrVal(Str("2001:db8::1")))
              /\ headers["x-forwarded-for"] = StrVal(Str("[2001:db8::1]:88"))

-----------------------------------------------------------------------------
-----------------------------------------------------------------------------
(* C3: x-forwarded-for is checked second: when x-client-ip yields no valid *)
(* IP and x-forwarded-for yields one, that one is the result, whatever the *)
(* headers from cf-connecting-ip to x-envoy-client-address hold.           *)
C3_XForwardedForIsSecond == pc = "done" /\ AllStrings(headers) /\ ~Yields("x-client-ip") /\ Yields("x-forwarded-for") => result = Alone("x-forwarded-for")

-----------------------------------------------------------------------------
(* C5: with no recognized header set the result is null, whatever other    *)
(* headers are present, and the value of x-envoy-upstream-service-time, a  *)
(* string as Headers holds it, never changes the result: the request       *)
(* without it resolves the same, whatever the recognized headers hold.     *)
C5_OtherHeadersIgnored == pc = "done" /\ headers["x-envoy-upstream-service-time"].t \in {"null", "string"} => /\ SetKeys(headers) \cap RecognizedKeys = {} => result = Return(Null)
                                                                                                                  /\ result = getClientIp(Without("x-envoy-upstream-service-time"))

\* x-envoy-upstream-service-time holds an address, next to a recognized header
\* or alone, and the call has completed.
C5_Witness == /\ pc = "done"
              /\ headers["x-envoy-upstream-service-time"] = StrVal(Str("1.1.1.1"))
              /\ SetKeys(headers) \cap RecognizedKeys = {}
              /\ result = Return(Null)

-----------------------------------------------------------------------------
(* C6: on a request whose headers are strings getClientIp does not throw;  *)
(* a recognized header that is set and yields no valid IP is skipped (the  *)
(* request without it resolves the same), and the result is null only if   *)
(* no recognized header yields a valid IP.                                 *)
C6_MalformedHeadersAreSkipped == pc = "done" /\ AllStrings(headers) => LET unyielding == {k \in SetKeys(headers) \cap RecognizedKeys : ~Yields(k)}
                                                                       IN /\ result.kind = "return"
                                                                          /\ \A k \in unyielding : result = getClientIp(Without(k))
                                                                          /\ result.value = Null <=> unyielding = SetKeys(headers) \cap RecognizedKeys

\* x-forwarded-for holds a list without any address, a later header holds an
\* address, and that address is the result.
C6_Witness == /\ pc = "done"
              /\ headers["x-forwarded-for"] = StrVal(Str("unknown, x"))
              /\ headers["x-appengine-user-ip"] = StrVal(Str("::2"))
              /\ result = Return(StrVal(Str("::2")))

-----------------------------------------------------------------------------
(* C7 as stated: whenever a recognized header holds a value that is not a  *)
(* string, getClientIp throws a TypeError, whatever the header and         *)
(* whatever the other headers hold.                                        *)
C7_NonStringAlwaysThrows == pc = "done" /\ (\E k \in RecognizedKeys : headers[k].t = "number") => result = Throw("TypeError")

\* The place of a header in the priority order, and the headers before it.
Rank == [k \in RecognizedKeys |-> CHOOSE i \in 1..Len(Priority) : Priority[i] = k]

Earlier(k) == {Priority[i] : i \in 1..(Rank[k] - 1)}

\* The headers whose value a helper function checks to be a string.
TypeChecked(k, value) == k \in {"x-forwarded-for", "forwarded"} \/ (k = "x-original-forwarded-for" /\ Truthy(value))

(* C7 as amended: a value that is not a string makes getClientIp throw a   *)
(* TypeError only under x-forwarded-for and forwarded, and under           *)
(* x-original-forwarded-for when it is truthy, and only when no earlier    *)
(* header of the priority order yields a valid IP.  In every other case    *)
(* (an atomic header, a falsy value of x-original-forwarded-for, an        *)
(* earlier header that yields) the value is skipped without an error: the  *)
(* request without that header resolves the same.                          *)
C7_TypeErrorOnlyFromParsedHeaders == pc = "done" => \A k \in RecognizedKeys : headers[k].t = "number" => IF TypeChecked(k, headers[k]) /\ (\A h \in Earlier(k) : ~Yields(h)) THEN result = Throw("TypeError") ELSE result = getClientIp(Without(k))

\* forwarded holds the number 0, no earlier header yields, and the call has thrown.
C7_Witness == /\ pc = "done"
              /\ headers["forwarded"] = NumVal(0)
              /\ headers["x-real-ip"] = StrVal(Str("unknown, x"))
              /\ result = Throw("TypeError")

-----------------------------------------------------------------------------
(* C4 as stated: when a recognized header, of whatever kind, is the only   *)
(* header set and its value is a string the IP validator accepts, the      *)
(* result is that value.                                                   *)
C4_SoleValidIpIsReturned == \A k \in RecognizedKeys : DoneWithOnly(k) /\ ip(headers[k]) => result = Return(headers[k])

\* The position of the last colon of s, 0 when s has none.
LastColon(s) == IF includes(s, ":") THEN CHOOSE c \in 1..Len(s) : s[c] = ":" /\ \A i \in (c + 1)..Len(s) : s[i] # ":" ELSE 0

\* s ends in a colon and 2 to 5 decimal digits: the look of an appended port.
HasPortLikeTail(s) == LastColon(s) > 0 /\ (Len(s) - LastColon(s)) \in 2..5 /\ AllDigits(From(s, LastColon(s) + 1))

\* s without its last colon and what follows it.
WithoutTail(s) == SubSeq(s, 1, LastColon(s) - 1)

(* C4 as amended: the result is that value, except under the list headers  *)
(* x-forwarded-for and x-original-forwarded-for when the value, an IPv6    *)
(* address, ends in a colon and 2 to 5 decimal digits: that group is then  *)
(* stripped as a port, and the result is the rest if the rest is a valid   *)
(* IP and null if it is not.                                               *)
C4_SoleValidIpUpToPortStrip == \A k \in RecognizedKeys : DoneWithOnly(k) /\ ip(headers[k]) => IF k \in ListKeys /\ HasPortLikeTail(headers[k].s) THEN result = (IF ip(StrVal(WithoutTail(headers[k].s))) THEN Return(StrVal(WithoutTail(headers[k].s))) ELSE Return(Null)) ELSE result = Return(headers[k])

\* x-forwarded-for holds an IPv6 address whose last group reads as a port, and
\* the result is the address without that group.
C4_Witness == /\ DoneWithOnly("x-forwarded-for")
              /\ headers["x-forwarded-for"] = StrVal(Str("2001:db8::1:8080"))
              /\ ip(headers["x-forwarded-for"])
              /\ result = Return(StrVal(Str("2001:db8::1")))

-----------------------------------------------------------------------------
(* C8: a list header yields the leftmost of its comma-separated tokens     *)
(* whose normalized form is a valid IP, in that normalized form, and       *)
(* nothing when no token is one; x-forwarded-for and                       *)
(* x-original-forwarded-for yield the same for the same value.             *)

\* The normalized form of the leftmost token of s that is a valid IP once normalized.
LeftmostValid(s) == LET tokens == split(s, ",")
                        valid == {i \in 1..Len(tokens) : ip(StrVal(normalizeIpCandidate(tokens[i])))}
                    IN IF valid = {} THEN Null ELSE StrVal(normalizeIpCandidate(tokens[CHOOSE i \in valid : \A j \in valid : i <= j]))

-----------------------------------------------------------------------------
(* C9: the forwarded header yields its whole value when that is a valid    *)
(* IP; otherwise the normalized value of the first parameter, entries      *)
(* split on "," and parameters on ";", whose key is "for" in any letter    *)
(* case and whose normalized value is a valid IP.  A parameter's key is    *)
(* what stands before its first "=", its value what stands between that    *)
(* and the next "=" or the end, both trimmed.                              *)

\* The sequences of seqs, one after the other.
RECURSIVE Concat(_)
Concat(seqs) == IF seqs = <<>> THEN <<>> ELSE Head(seqs) \o Concat(Tail(seqs))

\* The parameters of a Forwarded value: of its first entry, then of its second, ...
AllParams(s) == LET entries == split(s, ",") IN Concat([i \in 1..Len(entries) |-> split(entries[i], ";")])

ParamKey(p) == trim(split(p, "=")[1])

ParamValue(p) == IF Len(split(p, "=")) >= 2 THEN trim(split(p, "=")[2]) ELSE <<>>

\* The normalized value of the first for parameter of s that is a valid IP.
FirstValidFor(s) == LET params == AllParams(s)
                        valid == {i \in 1..Len(params) : toLowerCase(ParamKey(params[i])) = Str("for") /\ ip(StrVal(normalizeIpCandidate(ParamValue(params[i]))))}
                    IN IF valid = {} THEN Null ELSE StrVal(normalizeIpCandidate(ParamValue(params[CHOOSE i \in valid : \A j \in valid : i <= j])))

C9_ForwardedYieldsFirstValidFor == DoneWithOnly("forwarded") /\ headers["forwarded"].t = "string" => result = (IF ip(headers["forwarded"]) THEN Return(headers["forwarded"]) ELSE Return(FirstValidFor(headers["forwarded"].s)))

\* A for parameter without an address and a by parameter precede, in another
\* entry, a quoted and bracketed For parameter, which is the one that yields.
C9_Witness == /\ DoneWithOnly("forwarded")
              /\ headers["forwarded"] = StrVal(Str("for=_hidden,For=\"[::3]:80\""))
              /\ result = Return(StrVal(Str("::3")))

-----------------------------------------------------------------------------
(* C10: an x-forwarded-for token a:p, a a valid IPv4 address and p decimal *)
(* digits, resolves to a; a token [b] or [b]:p, b a valid IPv6 address,    *)
(* bare or inside one layer of matching single or double quotes, resolves  *)
(* to b.                                                                   *)

\* The token without its one layer of matching quotes, when it has one.
Bare(v) == IF Len(v) >= 2 /\ v[1] = v[Len(v)] /\ v[1] \in {"\"", "'"} THEN SubSeq(v, 2, Len(v) - 1) ELSE v

C10_PortAndBracketsStripped == DoneWithOnly("x-forwarded-for") /\ headers["x-forwarded-for"].t = "string" => LET v == headers["x-forwarded-for"].s
                                                                                                             IN /\ \A c \in 2..(Len(v) - 1) : v[c] = ":" /\ TestIpv4(SubSeq(v, 1, c - 1)) /\ AllDigits(From(v, c + 1)) => result = Return(StrVal(SubSeq(v, 1, c - 1)))
                                                                                                                /\ \A k \in 3..Len(Bare(v)) : (/\ Bare(v)[1] = "["
                                                                                                                                               /\ Bare(v)[k] = "]"
                                                                                                                                               /\ TestIpv6(SubSeq(Bare(v), 2, k - 1))
                                                                                                                                               /\ \/ k = Len(Bare(v))
                                                                                                                                                  \/ Bare(v)[k + 1] = ":" /\ k + 2 <= Len(Bare(v)) /\ AllDigits(From(Bare(v), k + 2))) => result = Return(StrVal(SubSeq(Bare(v), 2, k - 1)))

\* A quoted token of a bracketed IPv6 address and a port, and the address as the result.
C10_Witness == /\ DoneWithOnly("x-forwarded-for")
               /\ headers["x-forwarded-for"] = StrVal(Str("'[2001:db8::1:8080]:88888'"))
               /\ result = Return(StrVal(Str("2001:db8::1:8080")))

-----------------------------------------------------------------------------
(* C11: a token that has neither the bracketed form nor the form of an     *)
(* IPv4 address with a port, holds two colons or more and ends in a colon  *)
(* and 2 to 5 decimal digits is normalized to what stands before that last *)
(* colon; so the x-forwarded-for token b:p, b a valid IPv6 address (full,  *)
(* compressed or with a dotted IPv4 tail) and p a port of 2 to 5 digits,   *)
(* resolves to b.                                                          *)

\* The number of colons of s.
ColonCount(s) == Cardinality({i \in 1..Len(s) : s[i] = ":"})

C11_TrailingPortIsStripped == DoneWithOnly("x-forwarded-for") /\ headers["x-forwarded-for"].t = "string" => LET v == headers["x-forwarded-for"].s
                                                                                                            IN /\ (BracketClose(v) = {} /\ Ipv4PortColon(v) = {} /\ ColonCount(v) >= 2 /\ HasPortLikeTail(v)) => normalizeIpCandidate(v) = WithoutTail(v)
                                                                                                               /\ (HasPortLikeTail(v) /\ TestIpv6(WithoutTail(v))) => result = Return(StrVal(WithoutTail(v)))

-----------------------------------------------------------------------------
(* C12 as stated: the 13 atomic headers are never normalized.  A value     *)
(* that is a valid IP with an appended port, inside brackets or quotes, or *)
(* a comma-separated list with a valid IP fails validation and the header  *)
(* is skipped; and what an atomic header yields is its raw value.          *)

\* v is a valid IP, a colon and a decimal port.
PortAppended(v) == \E c \in 2..(Len(v) - 1) : v[c] = ":" /\ AllDigits(From(v, c + 1)) /\ ip(StrVal(SubSeq(v, 1, c - 1)))

\* v is a valid IP inside brackets, with or without a port after them.
Bracketed(v) == \E k \in 3..Len(v) : /\ v[1] = "["
                                     /\ v[k] = "]"
                                     /\ ip(StrVal(SubSeq(v, 2, k - 1)))
                                     /\ \/ k = Len(v)
                                        \/ At(v, k + 1) = ":" /\ k + 2 <= Len(v) /\ AllDigits(From(v, k + 2))

\* v is one of these, or a valid IP, inside matching quotes.
Quoted(v) == /\ Len(v) >= 3
             /\ v[1] = v[Len(v)]
             /\ v[1] \in {"\"", "'"}
             /\ LET inner == SubSeq(v, 2, Len(v) - 1) IN ip(StrVal(inner)) \/ PortAppended(inner) \/ Bracketed(inner)

\* v is a comma-separated list with a valid IP among its tokens.
ListOfIps(v) == includes(v, ",") /\ \E i \in 1..Len(split(v, ",")) : ip(StrVal(trim(split(v, ",")[i])))

\* v is a valid IP that a list header would have to repair.
DecoratedIp(v) == PortAppended(v) \/ Bracketed(v) \/ Quoted(v) \/ ListOfIps(v)

C12_DecoratedAtomicValueIsSkipped == \A k \in AtomicKeys : DoneWithOnly(k) /\ headers[k].t = "string" => /\ DecoratedIp(headers[k].s) => result = Return(Null)
                                                                                                         /\ result.kind = "return"
                                                                                                         /\ result.value # Null => result.value = headers[k]

(* C12 as amended: the same, except that a valid IPv6 address with an      *)
(* appended port of 1 to 4 digits can be a valid IPv6 address as a whole   *)
(* (2001:db8::1:8080): such a value passes validation and the header       *)
(* yields it as it is.  Every other decorated value is skipped.            *)
C12_AtomicHeadersAreNotNormalized == \A k \in AtomicKeys : DoneWithOnly(k) /\ headers[k].t = "string" => /\ DecoratedIp(headers[k].s) => IF ip(headers[k]) THEN /\ result = Return(headers[k])
                                                                                                                                                                 /\ TestIpv6(headers[k].s)
                                                                                                                                                                 /\ PortAppended(headers[k].s)
                                                                                                                                                                 /\ (Len(headers[k].s) - LastColon(headers[k].s)) \in 1..4
                                                                                                                                                                 /\ ~Bracketed(headers[k].s) /\ ~Quoted(headers[k].s) /\ ~ListOfIps(headers[k].s)
                                                                                                                                         ELSE result = Return(Null)
                                                                                                         /\ result.kind = "return"
                                                                                                         /\ result.value # Null => result.value = headers[k]

\* x-forwarded holds a bracketed address with a port, which a list header
\* would resolve, and the header is skipped.
C12_Witness == /\ DoneWithOnly("x-forwarded")
               /\ headers["x-forwarded"] = StrVal(Str("[2001:db8::1]:88"))
               /\ DecoratedIp(headers["x-forwarded"].s)
               /\ result = Return(Null)

-----------------------------------------------------------------------------
(* C13: resolution is repeatable.  One more call on the same header source *)
(* returns what the call before returned; no call, the first or a later    *)
(* one, changes the header source; and no step changes the lastIndex of    *)
(* the two patterns, the process-wide state a later call reads.            *)
C13_CallsAreRepeatable == [][/\ (pc = "done" /\ pc' = "done") => result' = result
                             /\ pc' = "done" => headers' = headers
                             /\ lastIndex' = lastIndex]_vars

\* x-forwarded-for has been resolved several times, after calls on other
\* header sources or not, with the address as the result.
C13_Witness == /\ pc = "done"
               /\ calls = MaxCalls
               /\ SetKeys(headers) = {"x-forwarded-for"}
               /\ headers["x-forwarded-for"] = StrVal(Str("1.1.1.1"))
               /\ result = Return(StrVal(Str("1.1.1.1")))

====
